---- MODULE Spec2Model ----
(***************************************************************************)
(* jpgconverter: the batch-execution engine.                               *)
(*                                                                         *)
(*   Spec      the library path, TaskProcessor.process (progress.py):      *)
(*             discovery, planning, partition into batches, a bounded      *)
(*             worker pool, draining in completion order, the progress bar.*)
(*   MainSpec  the script path, main / process_task (__main__.py): the     *)
(*             outer task loop, one future per work item, the shutdown     *)
(*             check while draining, the run totals and the exit status.   *)
(*   PlanSpec  discovery, planning and partition as functions of the task  *)
(*             configuration and the directory, over every format pair.    *)
(*   BarSpec   one ProgressBar and the threads calling update and close on *)
(*             it, statement by statement, with its lock.                  *)
(*   PoolSpec  the scheduler of Spec thread by thread: pool threads inside *)
(*             codec calls, the orchestrating thread inside update/close.  *)
(*   PoolFairSpec  PoolSpec under fair scheduling of its threads.          *)
(***************************************************************************)
EXTENDS Integers, Sequences, FiniteSets, TLC

\* ------------------------------------------------------------------ bounds
MaxFiles == 3
MaxBatchSize == 2
MaxWorkers == 2
MaxTasks == 2

\* ------------------------------------------------ the directory universe
\* File names a directory may hold, in lexicographic order of the path, so
\* that the order of the indices is the order sorted() gives.
Names ==
  << [stem |-> "a", suffix |-> ".heic"],
     [stem |-> "a", suffix |-> ".jpeg"],
     [stem |-> "a", suffix |-> ".jpg"],
     [stem |-> "b", suffix |-> ".avif"],
     [stem |-> "b", suffix |-> ".jpg"],
     [stem |-> "c", suffix |-> ".heic"],
     [stem |-> "c", suffix |-> ".jxl"],
     [stem |-> "c", suffix |-> ".txt"] >>

FileIds == DOMAIN Names

\* Path.stem and Path.suffix of a directory entry
Stem(f) == Names[f].stem
Suffix(f) == Names[f].suffix

\* f.suffix.lstrip(".")
LStripDot(s) ==
  CASE s = ".heic" -> "heic"
    [] s = ".jpeg" -> "jpeg"
    [] s = ".jpg" -> "jpg"
    [] s = ".avif" -> "avif"
    [] s = ".jxl" -> "jxl"
    [] OTHER -> s

InputFormats == {"jpg", "heic", "avif", "jxl", "auto", ""}
OutputFormats == {"jpg", "heic", "avif", "jxl", ""}
ModernFormats == {"heic", "avif", "jxl"}

\* ------------------------------------------------------ sequence helpers
RECURSIVE SortedSeq(_)
\* sorted(S) of a set of directory entries
SortedSeq(S) ==
  IF S = {} THEN << >>
  ELSE LET m == CHOOSE x \in S : \A y \in S : x <= y
       IN << m >> \o SortedSeq(S \ {m})

Range(s) == { s[i] : i \in DOMAIN s }

\* ------------------------------------------------------------ converter.py
\* find_files: ext_map
ExtsOf(fmt) ==
  CASE fmt = "jpg" -> {".jpg", ".jpeg", ".JPG", ".JPEG"}
    [] fmt = "heic" -> {".heic", ".HEIC", ".heif", ".HEIF"}
    [] fmt = "avif" -> {".avif", ".AVIF"}
    [] fmt = "jxl" -> {".jxl", ".JXL"}
    [] OTHER -> {}

\* find_files(directory, input_format); a directory is the set of its entries
find_files(exists, entries, fmt) ==
  IF ~exists THEN << >>
  ELSE SortedSeq({ f \in entries : Suffix(f) \in ExtsOf(fmt) })

\* get_output_ext: ext_map
ExtMap(fmt, default) ==
  CASE fmt = "jpg" -> ".jpg"
    [] fmt = "heic" -> ".heic"
    [] fmt = "avif" -> ".avif"
    [] fmt = "jxl" -> ".jxl"
    [] OTHER -> default

get_output_ext(input_format, output_format) ==
  IF output_format # "" THEN ExtMap(output_format, "." \o output_format)
  ELSE IF input_format \in ModernFormats THEN ".jpg"
  ELSE ExtMap(input_format, ".out")

\* ---------------------------------------------------------- config_data.py
resolve_input_format(t) ==
  IF t.input_format # "" THEN t.input_format
  ELSE IF t.output_format = "jpg" THEN "auto"
  ELSE "jpg"

resolve_output_format(t) ==
  IF t.output_format # "" THEN t.output_format
  ELSE IF resolve_input_format(t) = "jpg" THEN "heic"
  ELSE "jpg"

\* ------------------------------------------------- progress.py: planning
\* auto mode returns the three listings one after the other, without
\* sorted(set(...))
FindFiles_Concatenates(exists, entries, input_format) ==
  IF input_format = "auto"
  THEN find_files(exists, entries, "heic")
       \o find_files(exists, entries, "avif")
       \o find_files(exists, entries, "jxl")
  ELSE find_files(exists, entries, input_format)

\* TaskProcessor._find_files
FindFiles(exists, entries, input_format) ==
  IF input_format = "auto"
  THEN SortedSeq(Range(find_files(exists, entries, "heic")
                       \o find_files(exists, entries, "avif")
                       \o find_files(exists, entries, "jxl")))
  ELSE find_files(exists, entries, input_format)

\* out_path = output_dir / f"{f.stem}{out_ext}"
OutPath(f, out_ext) == << Stem(f), out_ext >>

\* the work item of one discovered file
WorkItem(f, out_ext, input_format, output_format) ==
  [inp |-> f,
   out |-> OutPath(f, out_ext),
   fmt |-> IF input_format # "auto" THEN output_format ELSE LStripDot(Suffix(f))]

\* the skip test forgets skip_existing
SkipFile_IgnoresFlag(f, out_ext, skip_existing, existing) ==
  << Stem(f), out_ext >> \in existing

\* the skip test looks for the input's own name in the output directory
SkipFile_WrongPath(f, out_ext, skip_existing, existing) ==
  skip_existing /\ << Stem(f), Suffix(f) >> \in existing

\* the skip test of the planning loop
SkipFile(f, out_ext, skip_existing, existing) ==
  skip_existing /\ OutPath(f, out_ext) \in existing

RECURSIVE PlanLoop(_, _, _, _, _, _)
PlanLoop(files, out_ext, input_format, output_format, skip_existing, existing) ==
  IF files = << >> THEN << >>
  ELSE LET f == Head(files)
           rest == PlanLoop(Tail(files), out_ext, input_format, output_format,
                            skip_existing, existing)
       IN IF SkipFile(f, out_ext, skip_existing, existing) THEN rest
          ELSE << WorkItem(f, out_ext, input_format, output_format) >> \o rest

\* TaskProcessor._prepare_tasks
PrepareTasks(files, input_format, output_format, skip_existing, existing) ==
  PlanLoop(files, get_output_ext(input_format, output_format),
           input_format, output_format, skip_existing, existing)

\* batches = [tasks[i:i + batch_size] for i in range(0, len(tasks), batch_size)]
Min(a, b) == IF a < b THEN a ELSE b

\* the last, shorter batch is lost (the range stops at the last full batch)
MakeBatches_DropsTail(ts, bs) ==
  [ k \in 1 .. (Len(ts) \div bs) |->
      SubSeq(ts, (k - 1) * bs + 1, Min(k * bs, Len(ts))) ]

\* the slice takes one item too many, so consecutive batches overlap
MakeBatches_Overlaps(ts, bs) ==
  [ k \in 1 .. ((Len(ts) + bs - 1) \div bs) |->
      SubSeq(ts, (k - 1) * bs + 1, Min(k * bs + 1, Len(ts))) ]

MakeBatches(ts, bs) ==
  [ k \in 1 .. ((Len(ts) + bs - 1) \div bs) |->
      SubSeq(ts, (k - 1) * bs + 1, Min(k * bs, Len(ts))) ]


\* ------------------------------------------------- progress.py: execution
\* TaskResult()
TaskResult0 == [success |-> 0, failed |-> 0, skipped |-> 0]

\* a future of the pool before its batch is submitted
Future0 == [st |-> "new", log |-> << >>, success |-> 0, failed |-> 0]

\* The outcomes of one call of the codec collaborator through _convert_file:
\* it returns (True, ""), returns (False, error), or raises.
Outcomes == {"ok", "fail", "raise"}

\* the loop of _process_batch ends at the first failed item
BatchStep_StopsAtFailure(f, item, n, o, esc) ==
  LET lg == Append(f.log, [inp |-> item.inp, ok |-> (o = "ok")])
  IN IF esc THEN [f EXCEPT !.st = "raised", !.log = lg]
     ELSE [st |-> IF Len(lg) = n \/ o # "ok" THEN "returned" ELSE "running",
           log |-> lg,
           success |-> IF o = "ok" THEN f.success + 1 ELSE f.success,
           failed |-> IF o = "ok" THEN f.failed ELSE f.failed + 1]

\* _process_batch, one iteration of its loop on `item` with the collaborator's
\* outcome o; esc: an exception leaves the per-item guard (raised while the
\* failure is reported), so the future of the batch raises.
BatchStep(f, item, n, o, esc) ==
  LET lg == Append(f.log, [inp |-> item.inp, ok |-> (o = "ok")])
  IN IF esc THEN [f EXCEPT !.st = "raised", !.log = lg]
     ELSE [st |-> IF Len(lg) = n THEN "returned" ELSE "running",
           log |-> lg,
           success |-> IF o = "ok" THEN f.success + 1 ELSE f.success,
           failed |-> IF o = "ok" THEN f.failed ELSE f.failed + 1]

\* a batch whose future raised counts as one failure
DrainResult_CountsOne(res, f, batch) ==
  IF f.st = "returned"
  THEN [res EXCEPT !.success = @ + f.success, !.failed = @ + f.failed]
  ELSE [res EXCEPT !.failed = @ + 1]

\* a batch whose future raised keeps the successes it had counted
DrainResult_KeepsPartial(res, f, batch) ==
  IF f.st = "returned"
  THEN [res EXCEPT !.success = @ + f.success, !.failed = @ + f.failed]
  ELSE [res EXCEPT !.success = @ + f.success, !.failed = @ + (Len(batch) - f.success)]

\* _execute_tasks_batch, the body of the as_completed loop for one future
DrainResult(res, f, batch) ==
  IF f.st = "returned"
  THEN [res EXCEPT !.success = @ + f.success, !.failed = @ + f.failed]
  ELSE [res EXCEPT !.failed = @ + Len(batch)]

\* ProgressBar(total); progress = None (on = FALSE) when show_progress is false
ProgressBar0(on, total) ==
  [on |-> on, current |-> 0, total |-> IF on THEN total ELSE 0]

\* update stores n instead of adding it
ProgressUpdate_Assigns(p, n) == IF p.on THEN [p EXCEPT !.current = n] ELSE p

\* ProgressBar.update(n)
ProgressUpdate(p, n) == IF p.on THEN [p EXCEPT !.current = @ + n] ELSE p

\* ProgressBar.close()
ProgressClose(p) == IF p.on THEN [p EXCEPT !.current = p.total] ELSE p

\* a missing input directory is counted as one failure
EarlyReturn_MissingDirFails(exists, found, skip_count) ==
  IF ~exists THEN [TaskResult0 EXCEPT !.failed = 1]
  ELSE IF Len(found) = 0 THEN TaskResult0
  ELSE [TaskResult0 EXCEPT !.skipped = skip_count]

\* what a task returns when it ends before the pool is created: the input
\* directory is missing, no file was discovered, or every file was skipped
EarlyReturn(exists, found, skip_count) ==
  IF ~exists THEN TaskResult0
  ELSE IF Len(found) = 0 THEN TaskResult0
  ELSE [TaskResult0 EXCEPT !.skipped = skip_count]

VARIABLES
  task,          \* the TaskConfig being processed
  dirExists,     \* input_dir.exists()
  dir,           \* the entries of the input directory
  outFiles,      \* the paths that exist in the output directory
  batch_size, max_workers, show_progress,
  shutdown,      \* the module-level _shutdown flag
  pc,            \* where the orchestrating (main) thread is
  files,         \* the discovered files of the current task
  tasks,         \* the planned work items of the current task
  batches,       \* the partition of tasks
  nsub,          \* how many futures have been submitted to the pool
  fut,           \* the futures, by submission index
  drained,       \* the futures the as_completed loop has yielded
  result,        \* the TaskResult (ok, fail, skip_count) of the current task
  progress,      \* the ProgressBar
  cfg, mi,       \* main: the task list and the loop index
  tot,           \* main: ok, fail, skip
  exitCode,      \* main: the argument of sys.exit, -1 while running
  planFs,        \* history: outFiles when the current task was planned
  sdAt,          \* history: futures of this task submitted before the flag was set, -1 if unset
  started,       \* history: the tasks main called process_task on
  mres,          \* history: what process_task returned, by task index
  rerun,         \* history: this is the second call of process() on the task
  prevOk,        \* history: the first call ended with no failure
  lock,          \* ProgressBar.lock: the thread that holds it, 0 when free
  call,          \* the ProgressBar call each thread is making, by thread
  codec          \* the pool threads that are inside a codec collaborator call

vars ==
  << task, dirExists, dir, outFiles, batch_size, max_workers, show_progress,
     shutdown, pc, files, tasks, batches, nsub, fut, drained, result, progress,
     cfg, mi, tot, exitCode, planFs, sdAt, started, mres, rerun, prevOk,
     lock, call, codec >>

envVars == << dirExists, dir, batch_size, max_workers, show_progress >>
mainVars == << cfg, mi, tot, exitCode, started, mres >>
threadVars == << lock, call, codec >>

\* ---------------------------------------------------------- initial states
\* the directories the scheduler runs start from hold the a.* and b.* entries
SchedulerFileIds == { f \in FileIds : Stem(f) \in {"a", "b"} }

Directories == { S \in SUBSET SchedulerFileIds : Cardinality(S) <= MaxFiles }

\* the task configurations the runs are started with
TaskConfigs ==
  [input_format : {"jpg", ""}, output_format : {"", "jpg"},
   skip_existing : BOOLEAN, enabled : BOOLEAN]

\* what the output directory may hold before the run
InitialOutputs == { {}, {<< "a", ".heic" >>} }

InitEnv ==
  /\ dirExists \in BOOLEAN
  /\ dir \in Directories
  /\ (~dirExists => dir = {})
  /\ outFiles \in InitialOutputs
  /\ shutdown = FALSE
  /\ files = << >>
  /\ tasks = << >>
  /\ batches = << >>
  /\ nsub = 0
  /\ fut = << >>
  /\ drained = {}
  /\ result = TaskResult0
  /\ progress = ProgressBar0(FALSE, 0)
  /\ planFs = {}
  /\ sdAt = -1
  /\ rerun = FALSE
  /\ prevOk = FALSE
  /\ lock = 0
  /\ call = << >>
  /\ codec = {}

Init ==
  /\ InitEnv
  /\ task \in { t \in TaskConfigs : t.enabled /\ (t.input_format = "") = (t.output_format = "jpg") }
  /\ batch_size \in 1 .. MaxBatchSize
  /\ max_workers \in 1 .. MaxWorkers
  /\ show_progress \in BOOLEAN
  /\ pc = "idle"
  /\ cfg = << >>
  /\ mi = 0
  /\ tot = TaskResult0
  /\ exitCode = -1
  /\ started = {}
  /\ mres = << >>

\* ---------------------------------------------- TaskProcessor.process
\* process(): resolve, validate, discover, plan, and set the scheduler up
\* (up to the ThreadPoolExecutor).
Process ==
  /\ pc = "idle"
  /\ LET input_fmt == resolve_input_format(task)
         output_fmt == resolve_output_format(task)
         found == FindFiles(dirExists, dir, input_fmt)
         planned == PrepareTasks(found, input_fmt, output_fmt,
                                 task.skip_existing, outFiles)
         early == ~dirExists \/ Len(found) = 0 \/ Len(planned) = 0
     IN /\ files' = IF dirExists THEN found ELSE << >>
        /\ tasks' = IF ~dirExists \/ Len(found) = 0 THEN << >> ELSE planned
        /\ batches' = IF early THEN << >> ELSE MakeBatches(planned, batch_size)
        /\ fut' = IF early THEN << >>
                  ELSE [ b \in DOMAIN MakeBatches(planned, batch_size) |-> Future0 ]
        /\ result' = IF early
                     THEN EarlyReturn(dirExists, found, Len(found) - Len(planned))
                     ELSE TaskResult0
        /\ progress' = IF early THEN ProgressBar0(FALSE, 0)
                       ELSE ProgressBar0(show_progress, Len(planned))
        /\ pc' = IF early THEN "done" ELSE "submit"
  /\ nsub' = 0
  /\ drained' = {}
  /\ planFs' = outFiles
  /\ sdAt' = IF shutdown THEN 0 ELSE -1
  /\ UNCHANGED << task, outFiles, shutdown, rerun, prevOk >>
  /\ UNCHANGED envVars
  /\ UNCHANGED threadVars
  /\ UNCHANGED mainVars

\* executor.submit(self._process_batch, batch, quality), for the next batch
SubmitBatch ==
  /\ pc = "submit"
  /\ nsub < Len(batches)
  /\ nsub' = nsub + 1
  /\ fut' = [fut EXCEPT ![nsub + 1].st = "queued"]
  /\ pc' = IF nsub + 1 = Len(batches) THEN "drain" ELSE "submit"
  /\ UNCHANGED << task, outFiles, shutdown, files, tasks, batches, drained,
                  result, progress, planFs, sdAt, rerun, prevOk >>
  /\ UNCHANGED envVars
  /\ UNCHANGED threadVars
  /\ UNCHANGED mainVars

\* a pool thread is not given back when its batch has finished
Running_NeverFreed == { b \in DOMAIN fut : fut[b].st \in {"running", "returned", "raised"} }

Running == { b \in DOMAIN fut : fut[b].st = "running" }
Queued == { b \in DOMAIN fut : fut[b].st = "queued" }

\* a pool thread takes the oldest queued work item; at most max_workers run
StartBatch(b) ==
  /\ fut[b].st = "queued"
  /\ \A c \in Queued : b <= c
  /\ Cardinality(Running) < max_workers
  /\ fut' = [fut EXCEPT ![b].st = "running"]
  /\ UNCHANGED << task, outFiles, shutdown, pc, files, tasks, batches, nsub,
                  drained, result, progress, planFs, sdAt, rerun, prevOk >>
  /\ UNCHANGED envVars
  /\ UNCHANGED threadVars
  /\ UNCHANGED mainVars

\* what a call of the collaborator leaves at the output path: a successful
\* conversion writes the file, a failed one may leave a partial file
WriteOutput(existing, item, o, leaves) ==
  IF o = "ok" \/ leaves THEN existing \cup {item.out} ELSE existing

\* _process_batch: the next item of a running batch
ConvertItem(b) ==
  /\ fut[b].st = "running"
  /\ LET item == batches[b][Len(fut[b].log) + 1]
     IN \E o \in Outcomes, esc \in BOOLEAN, leaves \in BOOLEAN :
          /\ (o = "ok") => (~esc /\ leaves)
          /\ fut' = [fut EXCEPT ![b] = BatchStep(fut[b], item, Len(batches[b]), o, esc)]
          /\ outFiles' = WriteOutput(outFiles, item, o, leaves)
  /\ UNCHANGED << task, shutdown, pc, files, tasks, batches, nsub,
                  drained, result, progress, planFs, sdAt, rerun, prevOk >>
  /\ UNCHANGED envVars
  /\ UNCHANGED threadVars
  /\ UNCHANGED mainVars

\* for future in as_completed(futures): one finished future, in any order.
\* The prints of the orchestrating thread and the rendering of the bar are
\* taken to return: were one to raise, _execute_tasks_batch would not return.
DrainBatch(b) ==
  /\ pc = "drain"
  /\ b \in DOMAIN fut
  /\ b \notin drained
  /\ fut[b].st \in {"returned", "raised"}
  /\ result' = DrainResult(result, fut[b], batches[b])
  /\ progress' = IF fut[b].st = "returned"
                 THEN ProgressUpdate(progress, Len(batches[b]))
                 ELSE progress
  /\ drained' = drained \cup {b}
  /\ UNCHANGED << task, outFiles, shutdown, pc, files, tasks, batches, nsub,
                  fut, planFs, sdAt, rerun, prevOk >>
  /\ UNCHANGED envVars
  /\ UNCHANGED threadVars
  /\ UNCHANGED mainVars

\* the pool is left, the bar closed, the result returned to process(), which
\* sets result.skipped
FinishRun ==
  /\ pc = "drain"
  /\ drained = DOMAIN fut
  /\ progress' = ProgressClose(progress)
  /\ result' = [result EXCEPT !.skipped = Len(files) - Len(tasks)]
  /\ pc' = "done"
  /\ UNCHANGED << task, outFiles, shutdown, files, tasks, batches, nsub, fut,
                  drained, planFs, sdAt, rerun, prevOk >>
  /\ UNCHANGED envVars
  /\ UNCHANGED threadVars
  /\ UNCHANGED mainVars

\* process() is called once more on the same task
Rerun ==
  /\ pc = "done"
  /\ ~rerun
  /\ rerun' = TRUE
  /\ prevOk' = (result.failed = 0)
  /\ pc' = "idle"
  /\ files' = << >>
  /\ tasks' = << >>
  /\ batches' = << >>
  /\ nsub' = 0
  /\ fut' = << >>
  /\ drained' = {}
  /\ result' = TaskResult0
  /\ progress' = ProgressBar0(FALSE, 0)
  /\ planFs' = {}
  /\ sdAt' = IF shutdown THEN 0 ELSE -1
  /\ UNCHANGED << task, outFiles, shutdown >>
  /\ UNCHANGED envVars
  /\ UNCHANGED threadVars
  /\ UNCHANGED mainVars

\* the handler flips the flag, so a second signal clears it
Signal_Toggles ==
  /\ shutdown' = ~shutdown
  /\ sdAt' = IF shutdown THEN sdAt ELSE nsub
  /\ UNCHANGED << task, outFiles, pc, files, tasks, batches, nsub, fut,
                  drained, result, progress, planFs, rerun, prevOk >>
  /\ UNCHANGED envVars
  /\ UNCHANGED threadVars
  /\ UNCHANGED mainVars

\* _signal_handler: SIGINT or SIGTERM arrives
Signal ==
  /\ shutdown' = TRUE
  /\ sdAt' = IF shutdown THEN sdAt ELSE nsub
  /\ UNCHANGED << task, outFiles, pc, files, tasks, batches, nsub, fut,
                  drained, result, progress, planFs, rerun, prevOk >>
  /\ UNCHANGED envVars
  /\ UNCHANGED threadVars
  /\ UNCHANGED mainVars

Next ==
  \/ Process
  \/ SubmitBatch
  \/ \E b \in DOMAIN fut : StartBatch(b)
  \/ \E b \in DOMAIN fut : ConvertItem(b)
  \/ \E b \in DOMAIN fut : DrainBatch(b)
  \/ FinishRun
  \/ Rerun
  \/ Signal

Spec == Init /\ [][Next]_vars

\* ------------------------------------------------------------ __main__.py
\* ThreadPoolExecutor(max_workers=8) of process_task
MainWorkers == 8

\* skip_count of process_task's planning loop
MainSkipCount(found, out_ext, skip, existing) ==
  Cardinality({ i \in DOMAIN found : SkipFile(found[i], out_ext, skip, existing) })

\* ok += a; fail += b; skip += c
Accumulate(t, r) ==
  [success |-> t.success + r.success,
   failed |-> t.failed + r.failed,
   skipped |-> t.skipped + r.skipped]

\* the exit status looks at the successes instead of the failures
ExitStatus_FromSuccess(t) == IF t.success > 0 \/ t.failed = 0 THEN 0 ELSE 1

\* sys.exit(0 if fail == 0 else 1)
ExitStatus(t) == IF t.failed = 0 THEN 0 ELSE 1

\* the loop of main tests the flag before the enabled field
LoopDecision_FlagLast(enabled, sd) ==
  IF enabled THEN "process" ELSE IF sd THEN "break" ELSE "continue"

\* the head of main's loop body: continue, break, or call process_task
LoopDecision(enabled, sd) ==
  IF ~enabled THEN "continue" ELSE IF sd THEN "break" ELSE "process"

\* the as_completed loop of process_task, for one yielded future that is counted
MainCount(res, f) ==
  IF f.st = "returned" /\ f.success = 1
  THEN [res EXCEPT !.success = @ + 1]
  ELSE [res EXCEPT !.failed = @ + 1]

\* the task lists main is run with
MainTaskConfigs ==
  { t \in TaskConfigs : t.input_format = "jpg" /\ t.output_format = "" }

\* the directories main is run on: the entries its tasks discover
MainDirectories ==
  { S \in Directories : \A f \in S : Suffix(f) \in ExtsOf("jpg") }

ConfigLists ==
  UNION { [1 .. n -> MainTaskConfigs] : n \in 0 .. MaxTasks }

MainInit ==
  /\ InitEnv
  /\ dir \in MainDirectories
  /\ cfg \in ConfigLists
  /\ task = [input_format |-> "", output_format |-> "", skip_existing |-> TRUE,
             enabled |-> TRUE]
  /\ batch_size = 1
  /\ max_workers = MainWorkers
  /\ show_progress = FALSE
  /\ pc = "loop"
  /\ mi = 1
  /\ tot = TaskResult0
  /\ exitCode = -1
  /\ started = {}
  /\ mres = << >>

\* main: a task with enabled = false is passed over
MainSkipDisabled ==
  /\ pc = "loop"
  /\ mi <= Len(cfg)
  /\ LoopDecision(cfg[mi].enabled, shutdown) = "continue"
  /\ mi' = mi + 1
  /\ UNCHANGED << task, outFiles, shutdown, pc, files, tasks, batches, nsub, fut,
                  drained, result, progress, cfg, tot, exitCode, planFs, sdAt,
                  started, mres, rerun, prevOk >>
  /\ UNCHANGED envVars
  /\ UNCHANGED threadVars

\* main: the next enabled task with the flag unset; process_task up to the
\* pool: resolve, validate, discover, plan. The flag is read once per
\* iteration, and that read decides the call: they are one step.
MainStartTask ==
  /\ pc = "loop"
  /\ mi <= Len(cfg)
  /\ LoopDecision(cfg[mi].enabled, shutdown) = "process"
  /\ LET t == cfg[mi]
         input_fmt == resolve_input_format(t)
         output_fmt == resolve_output_format(t)
         found == FindFiles(dirExists, dir, input_fmt)
         out_ext == get_output_ext(input_fmt, output_fmt)
         planned == PrepareTasks(found, input_fmt, output_fmt, t.skip_existing, outFiles)
         skip_count == MainSkipCount(found, out_ext, t.skip_existing, outFiles)
         early == ~dirExists \/ Len(found) = 0 \/ Len(planned) = 0
         ret == EarlyReturn(dirExists, found, skip_count)
     IN /\ task' = t
        /\ files' = IF early THEN << >> ELSE found
        /\ tasks' = IF early THEN << >> ELSE planned
        /\ batches' = IF early THEN << >> ELSE [ i \in DOMAIN planned |-> << planned[i] >> ]
        /\ fut' = IF early THEN << >> ELSE [ i \in DOMAIN planned |-> Future0 ]
        /\ result' = IF early THEN TaskResult0 ELSE ret
        /\ planFs' = IF early THEN {} ELSE outFiles
        /\ pc' = IF early THEN "loop" ELSE "submit"
        /\ mi' = IF early THEN mi + 1 ELSE mi
        /\ tot' = IF early THEN Accumulate(tot, ret) ELSE tot
        /\ mres' = IF early THEN (mi :> ret) @@ mres ELSE mres
  /\ started' = started \cup {mi}
  /\ nsub' = 0
  /\ drained' = {}
  /\ sdAt' = -1
  /\ UNCHANGED << outFiles, shutdown, progress, cfg, exitCode, rerun, prevOk >>
  /\ UNCHANGED envVars
  /\ UNCHANGED threadVars

\* ex.submit(convert_func, i, o, quality, f), for the next work item
MainSubmit ==
  /\ pc = "submit"
  /\ nsub < Len(tasks)
  /\ nsub' = nsub + 1
  /\ fut' = [fut EXCEPT ![nsub + 1].st = "queued"]
  /\ pc' = IF nsub + 1 = Len(tasks) THEN "drain" ELSE "submit"
  /\ UNCHANGED << task, outFiles, shutdown, files, tasks, batches, drained,
                  result, progress, planFs, sdAt, rerun, prevOk >>
  /\ UNCHANGED envVars
  /\ UNCHANGED threadVars
  /\ UNCHANGED mainVars

\* convert_func in a pool thread: the future holds (s, e), or raises
MainConvert(b) ==
  /\ fut[b].st = "running"
  /\ \E o \in Outcomes, leaves \in BOOLEAN :
       /\ (o = "ok") => leaves
       /\ fut' = [fut EXCEPT ![b] =
                    [st |-> IF o = "raise" THEN "raised" ELSE "returned",
                     log |-> << [inp |-> tasks[b].inp, ok |-> (o = "ok")] >>,
                     success |-> IF o = "ok" THEN 1 ELSE 0,
                     failed |-> IF o = "ok" THEN 0 ELSE 1]]
       /\ outFiles' = WriteOutput(outFiles, tasks[b], o, leaves)
  /\ UNCHANGED << task, shutdown, pc, files, tasks, batches, nsub,
                  drained, result, progress, planFs, sdAt, rerun, prevOk >>
  /\ UNCHANGED envVars
  /\ UNCHANGED threadVars
  /\ UNCHANGED mainVars

\* for i, fut in enumerate(as_completed(futs), 1): one finished future; the
\* flag is read first and ends the loop
MainDrain(b) ==
  /\ pc = "drain"
  /\ b \in DOMAIN fut
  /\ b \notin drained
  /\ fut[b].st \in {"returned", "raised"}
  /\ IF shutdown
     THEN /\ pc' = "join"
          /\ UNCHANGED << result, drained >>
     ELSE /\ result' = MainCount(result, fut[b])
          /\ drained' = drained \cup {b}
          /\ pc' = IF drained \cup {b} = DOMAIN fut THEN "join" ELSE "drain"
  /\ UNCHANGED << task, outFiles, shutdown, files, tasks, batches, nsub,
                  fut, progress, planFs, sdAt, rerun, prevOk >>
  /\ UNCHANGED envVars
  /\ UNCHANGED threadVars
  /\ UNCHANGED mainVars

\* the with block is left once every future has finished; process_task
\* returns ok, fail, skip_count and main adds them to the totals
MainJoin ==
  /\ pc = "join"
  /\ \A b \in DOMAIN fut : fut[b].st \in {"returned", "raised"}
  /\ tot' = Accumulate(tot, result)
  /\ mres' = (mi :> result) @@ mres
  /\ mi' = mi + 1
  /\ pc' = "loop"
  /\ files' = << >>
  /\ tasks' = << >>
  /\ batches' = << >>
  /\ nsub' = 0
  /\ fut' = << >>
  /\ drained' = {}
  /\ result' = TaskResult0
  /\ planFs' = {}
  /\ sdAt' = -1
  /\ UNCHANGED << task, outFiles, shutdown, progress, cfg, exitCode,
                  started, rerun, prevOk >>
  /\ UNCHANGED envVars
  /\ UNCHANGED threadVars

\* main: the loop ends (no task left, or the flag is set at an enabled task)
\* and the process exits
MainExit ==
  /\ pc = "loop"
  /\ IF mi > Len(cfg) THEN TRUE ELSE LoopDecision(cfg[mi].enabled, shutdown) = "break"
  /\ exitCode' = ExitStatus(tot)
  /\ pc' = "exit"
  /\ UNCHANGED << task, outFiles, shutdown, files, tasks, batches, nsub, fut,
                  drained, result, progress, cfg, mi, tot, planFs, sdAt,
                  started, mres, rerun, prevOk >>
  /\ UNCHANGED envVars
  /\ UNCHANGED threadVars

MainNext ==
  \/ MainSkipDisabled
  \/ MainStartTask
  \/ MainSubmit
  \/ \E b \in DOMAIN fut : StartBatch(b)
  \/ \E b \in DOMAIN fut : MainConvert(b)
  \/ \E b \in DOMAIN fut : MainDrain(b)
  \/ MainJoin
  \/ MainExit
  \/ Signal

MainSpec == MainInit /\ [][MainNext]_vars

\* ------------------------------------------------ conversion direction
\* TaskProcessor._convert_file: the collaborator chosen from the item's fmt
ConvertFile(fmt) ==
  IF fmt \in {"heic", "avif", "jxl"} THEN "convert_to_modern" ELSE "convert_to_jpg"

\* process_task: convert_func, chosen once per task from the input format
MainConvertFunc(input_fmt) ==
  IF input_fmt = "auto" THEN "convert_to_jpg"
  ELSE IF input_fmt = "jpg" THEN "convert_to_modern"
  ELSE "convert_to_jpg"

\* ------------------------------------------ discovery, planning, partition
\* The three planning functions of the task processor, applied in the order
\* process() applies them, to every task configuration the configuration
\* layer accepts and to directories over the whole name universe.
PlanTaskConfigs ==
  [input_format : InputFormats, output_format : OutputFormats,
   skip_existing : BOOLEAN, enabled : {TRUE}]

PlanDirectories == { S \in SUBSET FileIds : Cardinality(S) <= MaxFiles }

PlanInit ==
  /\ dirExists \in BOOLEAN
  /\ dir \in PlanDirectories
  /\ (~dirExists => dir = {})
  /\ outFiles \in InitialOutputs
  /\ task \in PlanTaskConfigs
  /\ batch_size \in 1 .. MaxBatchSize
  /\ max_workers = 1
  /\ show_progress = FALSE
  /\ pc = "find"
  /\ shutdown = FALSE
  /\ files = << >>
  /\ tasks = << >>
  /\ batches = << >>
  /\ nsub = 0
  /\ fut = << >>
  /\ drained = {}
  /\ result = TaskResult0
  /\ progress = ProgressBar0(FALSE, 0)
  /\ planFs = {}
  /\ sdAt = -1
  /\ rerun = FALSE
  /\ prevOk = FALSE
  /\ lock = 0
  /\ call = << >>
  /\ codec = {}
  /\ cfg = << >>
  /\ mi = 0
  /\ tot = TaskResult0
  /\ exitCode = -1
  /\ started = {}
  /\ mres = << >>

\* files = self._find_files(input_dir, input_fmt)
PlanFind ==
  /\ pc = "find"
  /\ files' = FindFiles(dirExists, dir, resolve_input_format(task))
  /\ pc' = "prepare"
  /\ UNCHANGED << task, outFiles, shutdown, tasks, batches, nsub, fut, drained,
                  result, progress, planFs, sdAt, rerun, prevOk >>
  /\ UNCHANGED envVars
  /\ UNCHANGED threadVars
  /\ UNCHANGED mainVars

\* tasks = self._prepare_tasks(files, output_dir, input_fmt, output_fmt, skip_existing)
PlanPrepare ==
  /\ pc = "prepare"
  /\ tasks' = PrepareTasks(files, resolve_input_format(task),
                           resolve_output_format(task), task.skip_existing, outFiles)
  /\ planFs' = outFiles
  /\ pc' = "partition"
  /\ UNCHANGED << task, outFiles, shutdown, files, batches, nsub, fut, drained,
                  result, progress, sdAt, rerun, prevOk >>
  /\ UNCHANGED envVars
  /\ UNCHANGED threadVars
  /\ UNCHANGED mainVars

\* batches = [tasks[i:i + batch_size] for i in range(0, len(tasks), batch_size)]
PlanPartition ==
  /\ pc = "partition"
  /\ batches' = MakeBatches(tasks, batch_size)
  /\ pc' = "planned"
  /\ UNCHANGED << task, outFiles, shutdown, files, tasks, nsub, fut, drained,
                  result, progress, planFs, sdAt, rerun, prevOk >>
  /\ UNCHANGED envVars
  /\ UNCHANGED threadVars
  /\ UNCHANGED mainVars

PlanNext ==
  \/ PlanFind
  \/ PlanPrepare
  \/ PlanPartition

PlanSpec == PlanInit /\ [][PlanNext]_vars

\* ------------------------------------------- ProgressBar under threads
\* One ProgressBar object and the threads that call update(n) or close() on
\* it, at the grain of the statements of the two methods: entering the with
\* block, the read and the write of self.current += n, _display(), leaving
\* the with block.
MaxThreads == 3
MaxN == 2
MaxTotal == 3

Threads == 1 .. MaxThreads

\* a call that has been made and has not entered the with block yet
NewCall(op, n) ==
  [op |-> op, n |-> n, pc |-> "call", reg |-> 0, wrote |-> -1,
   rendered |-> FALSE, value |-> -1, divisors |-> {}]

CallInputs ==
  { NewCall("update", n) : n \in 1 .. MaxN } \cup { NewCall("close", 0) }

\* _display() without the early return on total == 0
Display_NoGuard(p) ==
  [rendered |-> TRUE,
   value |-> p.current,
   divisors |-> {p.total} \cup (IF p.current > 0 THEN {p.current} ELSE {})]

\* _display(): nothing when total == 0; otherwise one line is printed from
\* current, with current / total, elapsed * (total - current) / current when
\* current > 0, and bar_length * current // total
Display(p) ==
  IF p.total = 0
  THEN [rendered |-> FALSE, value |-> -1, divisors |-> {}]
  ELSE [rendered |-> TRUE,
        value |-> p.current,
        divisors |-> {p.total} \cup (IF p.current > 0 THEN {p.current} ELSE {})]

BarInit ==
  /\ dirExists = FALSE
  /\ dir = {}
  /\ outFiles = {}
  /\ shutdown = FALSE
  /\ files = << >>
  /\ tasks = << >>
  /\ batches = << >>
  /\ nsub = 0
  /\ fut = << >>
  /\ drained = {}
  /\ result = TaskResult0
  /\ planFs = {}
  /\ sdAt = -1
  /\ rerun = FALSE
  /\ prevOk = FALSE
  /\ lock = 0
  /\ codec = {}
  /\ \E total \in 0 .. MaxTotal : progress = ProgressBar0(TRUE, total)
  /\ call \in [Threads -> CallInputs]
  /\ task = [input_format |-> "", output_format |-> "", skip_existing |-> TRUE,
             enabled |-> TRUE]
  /\ batch_size = 1
  /\ max_workers = 1
  /\ show_progress = TRUE
  /\ pc = "bar"
  /\ cfg = << >>
  /\ mi = 0
  /\ tot = TaskResult0
  /\ exitCode = -1
  /\ started = {}
  /\ mres = << >>

\* what the bar steps leave alone
barFrame ==
  << task, outFiles, shutdown, pc, files, tasks, batches, nsub, fut, drained,
     result, planFs, sdAt, rerun, prevOk, codec >>

\* the with block is entered without waiting for the lock
BarAcquire_NoLock(t) ==
  /\ call[t].pc = "call"
  /\ lock' = t
  /\ call' = [call EXCEPT ![t].pc = "locked"]
  /\ UNCHANGED << progress, barFrame >>
  /\ UNCHANGED envVars
  /\ UNCHANGED mainVars

\* with self.lock: the thread blocks until the lock is free
BarAcquire(t) ==
  /\ call[t].pc = "call"
  /\ lock = 0
  /\ lock' = t
  /\ call' = [call EXCEPT ![t].pc = "locked"]
  /\ UNCHANGED << progress, barFrame >>
  /\ UNCHANGED envVars
  /\ UNCHANGED mainVars

\* update: self.current += n, the read of self.current
BarLoad(t) ==
  /\ call[t].pc = "locked"
  /\ call[t].op = "update"
  /\ call' = [call EXCEPT ![t].reg = progress.current, ![t].pc = "loaded"]
  /\ UNCHANGED << lock, progress, barFrame >>
  /\ UNCHANGED envVars
  /\ UNCHANGED mainVars

\* update: self.current += n, the write of the sum
BarStore(t) ==
  /\ call[t].pc = "loaded"
  /\ progress' = [progress EXCEPT !.current = call[t].reg + call[t].n]
  /\ call' = [call EXCEPT ![t].wrote = call[t].reg + call[t].n, ![t].pc = "stored"]
  /\ UNCHANGED << lock, barFrame >>
  /\ UNCHANGED envVars
  /\ UNCHANGED mainVars

\* close: self.current = self.total
BarSetTotal(t) ==
  /\ call[t].pc = "locked"
  /\ call[t].op = "close"
  /\ progress' = ProgressClose(progress)
  /\ call' = [call EXCEPT ![t].wrote = progress.total, ![t].pc = "stored"]
  /\ UNCHANGED << lock, barFrame >>
  /\ UNCHANGED envVars
  /\ UNCHANGED mainVars

\* self._display(), still inside the with block
BarDisplay(t) ==
  /\ call[t].pc = "stored"
  /\ LET d == Display(progress)
     IN call' = [call EXCEPT ![t].rendered = d.rendered, ![t].value = d.value,
                             ![t].divisors = d.divisors, ![t].pc = "shown"]
  /\ UNCHANGED << lock, progress, barFrame >>
  /\ UNCHANGED envVars
  /\ UNCHANGED mainVars

\* the with block is left and the lock is not released
BarRelease_KeepsLock(t) ==
  /\ call[t].pc = "shown"
  /\ lock' = lock
  /\ call' = [call EXCEPT ![t].pc = "returned"]
  /\ UNCHANGED << progress, barFrame >>
  /\ UNCHANGED envVars
  /\ UNCHANGED mainVars

\* the end of the with block: the lock is released and the method returns
BarRelease(t) ==
  /\ call[t].pc = "shown"
  /\ lock' = IF lock = t THEN 0 ELSE lock
  /\ call' = [call EXCEPT ![t].pc = "returned"]
  /\ UNCHANGED << progress, barFrame >>
  /\ UNCHANGED envVars
  /\ UNCHANGED mainVars

BarStep(t) ==
  \/ BarAcquire(t)
  \/ BarLoad(t)
  \/ BarStore(t)
  \/ BarSetTotal(t)
  \/ BarDisplay(t)
  \/ BarRelease(t)

BarNext == \E t \in Threads : BarStep(t)

BarSpec == BarInit /\ [][BarNext]_vars

\* ------------------------------------- _execute_tasks_batch, thread by thread
\* The scheduler of Spec at the grain of its threads: a pool thread is inside
\* a codec collaborator call from the call to its return, and the
\* orchestrating thread makes its ProgressBar calls statement by statement.
\* A pool thread is named by the batch it runs.
MainThread == -1

\* the orchestrating thread is not inside a ProgressBar call
MainIdle ==
  IF MainThread \in DOMAIN call THEN call[MainThread].pc = "returned" ELSE TRUE

PoolInit ==
  /\ InitEnv
  /\ dir \in MainDirectories
  /\ task \in { t \in TaskConfigs :
                 t.enabled /\ t.input_format = "jpg" /\ t.output_format = "" }
  /\ batch_size \in 1 .. MaxBatchSize
  /\ max_workers \in 1 .. MaxWorkers
  /\ show_progress \in BOOLEAN
  /\ pc = "idle"
  /\ cfg = << >>
  /\ mi = 0
  /\ tot = TaskResult0
  /\ exitCode = -1
  /\ started = {}
  /\ mres = << >>

\* _convert_file: the pool thread of batch b calls convert_to_modern or
\* convert_to_jpg for the next item
PoolEnterCodec(b) ==
  /\ fut[b].st = "running"
  /\ b \notin codec
  /\ codec' = codec \cup {b}
  /\ UNCHANGED << task, outFiles, shutdown, pc, files, tasks, batches, nsub, fut,
                  drained, result, progress, planFs, sdAt, rerun, prevOk,
                  lock, call >>
  /\ UNCHANGED envVars
  /\ UNCHANGED mainVars

\* a planned item whose output path exists when its turn comes is passed
\* over: skip_existing is looked at again, and the item is not counted
PoolLeaveCodec_SkipsExisting(b) ==
  /\ b \in codec
  /\ LET item == batches[b][Len(fut[b].log) + 1]
     IN \E o \in Outcomes, esc \in BOOLEAN, leaves \in BOOLEAN :
          /\ (o = "ok") => (~esc /\ leaves)
          /\ IF task.skip_existing /\ item.out \in outFiles
             THEN /\ fut' = [fut EXCEPT ![b].log = Append(@, [inp |-> item.inp, ok |-> FALSE]),
                                        ![b].st = IF Len(fut[b].log) + 1 = Len(batches[b])
                                                  THEN "returned" ELSE "running"]
                  /\ outFiles' = outFiles
             ELSE /\ fut' = [fut EXCEPT ![b] = BatchStep(fut[b], item, Len(batches[b]), o, esc)]
                  /\ outFiles' = WriteOutput(outFiles, item, o, leaves)
  /\ codec' = codec \ {b}
  /\ UNCHANGED << task, shutdown, pc, files, tasks, batches, nsub,
                  drained, result, progress, planFs, sdAt, rerun, prevOk,
                  lock, call >>
  /\ UNCHANGED envVars
  /\ UNCHANGED mainVars

\* the pool thread adds the item's count to the task's TaskResult itself
PoolLeaveCodec_AddsToResult(b) ==
  /\ b \in codec
  /\ LET item == batches[b][Len(fut[b].log) + 1]
     IN \E o \in Outcomes, esc \in BOOLEAN, leaves \in BOOLEAN :
          /\ (o = "ok") => (~esc /\ leaves)
          /\ fut' = [fut EXCEPT ![b] = BatchStep(fut[b], item, Len(batches[b]), o, esc)]
          /\ outFiles' = WriteOutput(outFiles, item, o, leaves)
          /\ result' = IF o = "ok" THEN [result EXCEPT !.success = @ + 1]
                       ELSE [result EXCEPT !.failed = @ + 1]
  /\ codec' = codec \ {b}
  /\ UNCHANGED << task, shutdown, pc, files, tasks, batches, nsub,
                  drained, progress, planFs, sdAt, rerun, prevOk,
                  lock, call >>
  /\ UNCHANGED envVars
  /\ UNCHANGED mainVars

\* the collaborator returns, and _process_batch counts the item
PoolLeaveCodec(b) ==
  /\ b \in codec
  /\ LET item == batches[b][Len(fut[b].log) + 1]
     IN \E o \in Outcomes, esc \in BOOLEAN, leaves \in BOOLEAN :
          /\ (o = "ok") => (~esc /\ leaves)
          /\ fut' = [fut EXCEPT ![b] = BatchStep(fut[b], item, Len(batches[b]), o, esc)]
          /\ outFiles' = WriteOutput(outFiles, item, o, leaves)
  /\ codec' = codec \ {b}
  /\ UNCHANGED << task, shutdown, pc, files, tasks, batches, nsub,
                  drained, result, progress, planFs, sdAt, rerun, prevOk,
                  lock, call >>
  /\ UNCHANGED envVars
  /\ UNCHANGED mainVars

\* for future in as_completed(futures): the counts of one finished future
\* are added, and progress.update(len(batch)) is called if it returned
PoolDrain(b) ==
  /\ pc = "drain"
  /\ MainIdle
  /\ b \in DOMAIN fut
  /\ b \notin drained
  /\ fut[b].st \in {"returned", "raised"}
  /\ result' = DrainResult(result, fut[b], batches[b])
  /\ drained' = drained \cup {b}
  /\ call' = IF fut[b].st = "returned" /\ progress.on
             THEN (MainThread :> NewCall("update", Len(batches[b])))
             ELSE call
  /\ UNCHANGED << task, outFiles, shutdown, pc, files, tasks, batches, nsub,
                  fut, progress, planFs, sdAt, rerun, prevOk, lock, codec >>
  /\ UNCHANGED envVars
  /\ UNCHANGED mainVars

\* the pool is left; progress.close() is called if there is a bar
PoolClose ==
  /\ pc = "drain"
  /\ MainIdle
  /\ drained = DOMAIN fut
  /\ call' = IF progress.on THEN (MainThread :> NewCall("close", 0)) ELSE call
  /\ pc' = "close"
  /\ UNCHANGED << task, outFiles, shutdown, files, tasks, batches, nsub, fut,
                  drained, result, progress, planFs, sdAt, rerun, prevOk,
                  lock, codec >>
  /\ UNCHANGED envVars
  /\ UNCHANGED mainVars

\* the result is returned to process(), which sets result.skipped
PoolReturn ==
  /\ pc = "close"
  /\ MainIdle
  /\ result' = [result EXCEPT !.skipped = Len(files) - Len(tasks)]
  /\ pc' = "done"
  /\ UNCHANGED << task, outFiles, shutdown, files, tasks, batches, nsub, fut,
                  drained, progress, planFs, sdAt, rerun, prevOk >>
  /\ UNCHANGED envVars
  /\ UNCHANGED threadVars
  /\ UNCHANGED mainVars

\* the output paths of the a.* and b.* entries under the default target
OtherPaths == { OutPath(f, ".heic") : f \in SchedulerFileIds }

\* something else (another task, another program) creates a file in the
\* output directory while the task is scheduled
OtherWriter(p) ==
  /\ pc \in {"submit", "drain"}
  /\ p \notin outFiles
  /\ outFiles' = outFiles \cup {p}
  /\ UNCHANGED << task, shutdown, pc, files, tasks, batches, nsub, fut,
                  drained, result, progress, planFs, sdAt, rerun, prevOk >>
  /\ UNCHANGED envVars
  /\ UNCHANGED threadVars
  /\ UNCHANGED mainVars

PoolNext ==
  \/ Process
  \/ SubmitBatch
  \/ \E b \in DOMAIN fut : StartBatch(b)
  \/ \E b \in DOMAIN fut : PoolEnterCodec(b)
  \/ \E b \in DOMAIN fut : PoolLeaveCodec(b)
  \/ \E b \in DOMAIN fut : PoolDrain(b)
  \/ \E t \in DOMAIN call : BarStep(t)
  \/ PoolClose
  \/ PoolReturn
  \/ \E p \in OtherPaths : OtherWriter(p)

PoolSpec == PoolInit /\ [][PoolNext]_vars

\* Fair scheduling: a pool thread that can take a batch, call the codec or
\* get its answer eventually does (every codec call returns or raises), and
\* the orchestrating thread, when it can take its next step, eventually does.
\* Nothing is asked of the other writers of the output directory.
PoolFairness ==
  /\ WF_vars(Process)
  /\ WF_vars(SubmitBatch)
  /\ WF_vars(\E b \in DOMAIN fut : StartBatch(b))
  /\ \A b \in 1 .. MaxFiles : WF_vars(b \in DOMAIN fut /\ PoolEnterCodec(b))
  /\ \A b \in 1 .. MaxFiles : WF_vars(b \in DOMAIN fut /\ PoolLeaveCodec(b))
  /\ WF_vars(\E b \in DOMAIN fut : PoolDrain(b))
  /\ WF_vars(\E t \in DOMAIN call : BarStep(t))
  /\ WF_vars(PoolClose)
  /\ WF_vars(PoolReturn)

PoolFairSpec == PoolSpec /\ PoolFairness

\* ------------------------------------------------------------- properties
RECURSIVE SumFn(_)
SumFn(f) ==
  IF DOMAIN f = {} THEN 0
  ELSE LET x == CHOOSE y \in DOMAIN f : TRUE
       IN f[x] + SumFn([ z \in DOMAIN f \ {x} |-> f[z] ])

SumOver(S, F(_)) == SumFn([ x \in S |-> F(x) ])

BatchLen(b) == Len(batches[b])
OkCount(b) == Cardinality({ k \in DOMAIN fut[b].log : fut[b].log[k].ok })
Attempted(b) == Len(fut[b].log)
Raised == { b \in DOMAIN fut : fut[b].st = "raised" }
Returned == { b \in DOMAIN fut : fut[b].st = "returned" }
SchedulerReturned == pc = "done" /\ tasks # << >>

\* C1: when _execute_tasks_batch returns, success + failed is the number of
\* work items it was given; while it drains, success + failed is the number of
\* items of the batches drained so far.
C1_CountsSumToN ==
  /\ pc \in {"submit", "drain"} =>
       result.success + result.failed = SumOver(drained, BatchLen)
  /\ SchedulerReturned => result.success + result.failed = Len(tasks)

C1_Witness ==
  /\ SchedulerReturned
  /\ Len(batches) >= 2
  /\ Raised # {}
  /\ \E b \in Returned : fut[b].success > 0 /\ fut[b].failed > 0

\* C2, as stated: the returned success is the number of items whose conversion
\* returned ok, and failed is the number of the other items.
C2_Original ==
  SchedulerReturned =>
    /\ result.success = SumOver(DOMAIN fut, OkCount)
    /\ result.failed = Len(tasks) - SumOver(DOMAIN fut, OkCount)

\* C2, amended: the returned success is the number of items whose conversion
\* returned ok in a batch whose future returned, failed is the number of the
\* other items (every item of a batch whose future raised among them), whatever
\* the order of completion; when every conversion succeeded and skip_existing is
\* false the result is (number of discovered files, 0, 0).
C2_OrderIndependentTotals ==
  SchedulerReturned =>
    /\ result.success = SumOver(Returned, OkCount)
    /\ result.failed = Len(tasks) - SumOver(Returned, OkCount)
    /\ ( /\ ~task.skip_existing
         /\ \A b \in DOMAIN fut : OkCount(b) = BatchLen(b) )
       => result = [success |-> Len(files), failed |-> 0, skipped |-> 0]

C2_Witness ==
  /\ SchedulerReturned
  /\ \E b \in Raised : OkCount(b) > 0
  /\ \E b \in Returned : OkCount(b) > 0

\* C3, as stated: once the shutdown flag is set, no batch that has not been
\* submitted is submitted.
C3_NoSubmitAfterShutdown == [][shutdown => ~(nsub' > nsub)]_vars

\* C4, as stated: with the flag set before any batch of the task is dispatched,
\* the scheduler returns success = 0 and failed = 0 and converts no item.
C4_ShutdownBeforeDispatch ==
  (SchedulerReturned /\ sdAt = 0) =>
    /\ result.success = 0
    /\ result.failed = 0
    /\ \A b \in DOMAIN fut : Attempted(b) = 0

\* C5: main calls process_task on enabled tasks only; once the shutdown flag is
\* set it calls process_task on no further task; when it exits, no task from the
\* one the loop stopped at onwards was started or has a result in the totals.
C5_NoTaskAfterShutdown ==
  /\ [](\A i \in started : cfg[i].enabled)
  /\ [][shutdown => started' = started]_vars
  /\ [](pc = "exit" =>
         \A i \in DOMAIN cfg : i >= mi => (i \notin started /\ i \notin DOMAIN mres))

C5_Witness ==
  /\ pc = "exit"
  /\ shutdown
  /\ started = {1}
  /\ mi = 2
  /\ Len(cfg) = 2
  /\ cfg[2].enabled
  /\ mres[1].success > 0
  /\ tot = mres[1]

\* C6: the run totals are the component-wise sum of what process_task returned
\* for the tasks it was called on, and the exit status is 0 exactly when the
\* summed failed count is zero, and 1 otherwise.
ResSuccess(i) == mres[i].success
ResFailed(i) == mres[i].failed
ResSkipped(i) == mres[i].skipped

C6_TotalsAndExitStatus ==
  /\ pc \in {"loop", "exit"} =>
       /\ DOMAIN mres = started
       /\ tot.success = SumOver(started, ResSuccess)
       /\ tot.failed = SumOver(started, ResFailed)
       /\ tot.skipped = SumOver(started, ResSkipped)
  /\ pc = "exit" =>
       /\ exitCode \in {0, 1}
       /\ (exitCode = 0) <=> (SumOver(DOMAIN mres, ResFailed) = 0)
  /\ pc # "exit" => exitCode = -1

C6_Witness ==
  /\ pc = "exit"
  /\ Cardinality(started) = 2
  /\ tot.success > 0
  /\ tot.failed > 0
  /\ tot.skipped > 0
  /\ exitCode = 1

\* C7: for a task that reaches planning, a discovered file is skipped exactly
\* when skip_existing is true and its output path existed when the task was
\* planned, every other discovered file is exactly one work item, in the order
\* of discovery, and skipped + to_process = total_discovered.
PlannedSkips ==
  { i \in DOMAIN files :
      /\ task.skip_existing
      /\ << Stem(files[i]),
            get_output_ext(resolve_input_format(task), resolve_output_format(task)) >>
           \in planFs }

C7_SkippedPlusPlanned ==
  (pc \in {"submit", "drain", "done"} /\ Len(files) > 0) =>
    /\ Cardinality(PlannedSkips) + Len(tasks) = Len(files)
    /\ \A i \in DOMAIN files :
         Cardinality({ k \in DOMAIN tasks : tasks[k].inp = files[i] })
           = IF i \in PlannedSkips THEN 0 ELSE 1
    /\ \A k \in DOMAIN tasks : \A l \in DOMAIN tasks :
         k < l => tasks[k].inp < tasks[l].inp
    /\ pc = "done" => result.skipped = Cardinality(PlannedSkips)

C7_Witness ==
  /\ pc = "done"
  /\ result.skipped > 0
  /\ Len(tasks) > 0
  /\ ~rerun

\* C8: a second call of process() on a task with skip_existing = true, right
\* after a call in which no conversion failed, returns success = 0, failed = 0,
\* skipped = total_discovered and invokes no conversion.
C8_RerunSkipsAll ==
  (rerun /\ pc # "idle" /\ prevOk /\ task.skip_existing) =>
    /\ tasks = << >>
    /\ fut = << >>
    /\ pc = "done"
    /\ result = [success |-> 0, failed |-> 0, skipped |-> Len(files)]

C8_Witness ==
  /\ rerun
  /\ pc = "done"
  /\ prevOk
  /\ task.skip_existing
  /\ Len(files) >= 2
  /\ Cardinality(outFiles) >= 2
  /\ result.skipped = Len(files)

DrainedFailed(b) == IF fut[b].st = "raised" THEN BatchLen(b) ELSE fut[b].failed
DrainedSuccess(b) == IF fut[b].st = "raised" THEN 0 ELSE fut[b].success

C10_BatchLevelFailure ==
  /\ (pc \in {"submit", "drain"} \/ SchedulerReturned) =>
       /\ result.failed = SumOver(drained, DrainedFailed)
       /\ result.success = SumOver(drained, DrainedSuccess)
  /\ SchedulerReturned => drained = DOMAIN fut

C10_Witness ==
  /\ pc = "drain"
  /\ \E b \in drained : fut[b].st = "raised" /\ BatchLen(b) = 2
  /\ \E b \in DOMAIN fut \ drained : fut[b].st = "returned" /\ fut[b].success > 0

\* C11: a task whose input directory is missing, or in which no file is
\* discovered, returns the all-zero result without a future being created,
\* and the run goes on: unless the flag is set, every enabled task of the
\* list has been started when the run exits.
NoneDiscovered(t) ==
  LET fmt == resolve_input_format(t)
      exts == IF fmt = "auto"
              THEN ExtsOf("heic") \cup ExtsOf("avif") \cup ExtsOf("jxl")
              ELSE ExtsOf(fmt)
  IN ~dirExists \/ \A f \in dir : Suffix(f) \notin exts

C11_TaskLevelFailure ==
  /\ \A i \in DOMAIN mres : NoneDiscovered(cfg[i]) => mres[i] = TaskResult0
  /\ (started # {} /\ NoneDiscovered(task)) =>
       /\ pc \in {"loop", "exit"}
       /\ fut = << >>
       /\ nsub = 0
       /\ tot = TaskResult0
  /\ (pc = "exit" /\ ~shutdown) =>
       started = { i \in DOMAIN cfg : cfg[i].enabled }

C11_Witness ==
  /\ pc = "exit"
  /\ ~dirExists
  /\ started = {1, 2}
  /\ mres[1] = TaskResult0
  /\ mres[2] = TaskResult0
  /\ exitCode = 0

\* C12: while a task is scheduled, the tracker's current never decreases, and
\* 0 <= current <= total holds in every reachable state, for every order in
\* which the batches complete and are drained.
C12_ProgressMonotoneBounded ==
  /\ [](progress.on => (0 <= progress.current /\ progress.current <= progress.total))
  /\ [][(progress.on /\ pc \in {"submit", "drain"}) =>
          (progress'.on /\ progress'.total = progress.total
           /\ progress'.current >= progress.current)]_vars

C12_Witness ==
  /\ pc = "drain"
  /\ progress.on
  /\ 0 < progress.current
  /\ progress.current < progress.total
  /\ Cardinality(drained) = 2

\* C14: the batches are an ordered, non-overlapping, exhaustive partition of
\* the planned work items: concatenated in order they give the list back,
\* every batch but the last has exactly batch_size items, the last has between
\* 1 and batch_size, every work item is in exactly one batch, and zero items
\* give zero batches.
RECURSIVE Flatten(_)
Flatten(bs) == IF bs = << >> THEN << >> ELSE Head(bs) \o Flatten(Tail(bs))

C14_BatchPartition ==
  pc = "planned" =>
    /\ Flatten(batches) = tasks
    /\ \A k \in DOMAIN batches :
         /\ k < Len(batches) => Len(batches[k]) = batch_size
         /\ 1 <= Len(batches[k])
         /\ Len(batches[k]) <= batch_size
    /\ \A i \in DOMAIN tasks :
         Cardinality({ kj \in (DOMAIN batches) \X (1 .. Len(tasks)) :
                         /\ kj[2] <= Len(batches[kj[1]])
                         /\ batches[kj[1]][kj[2]] = tasks[i] }) = 1
    /\ (tasks = << >> => batches = << >>)

C14_Witness ==
  /\ pc = "planned"
  /\ Len(tasks) = 3
  /\ batch_size = 2
  /\ Len(batches) = 2
  /\ Len(batches[2]) = 1

\* C15: within one task, the output paths of the planned work items are
\* pairwise distinct.
C15_DistinctOutputPaths ==
  pc \in {"partition", "planned"} =>
    \A i, j \in DOMAIN tasks : i # j => tasks[i].out # tasks[j].out

\* C16: for a task whose effective input format is heic, avif, jxl or auto,
\* the output extension of every planned work item is .jpg, whatever the
\* task's output_format is.
C16_ModernInputGivesJpg ==
  (pc \in {"partition", "planned"}
   /\ resolve_input_format(task) \in ModernFormats \cup {"auto"}) =>
    \A i \in DOMAIN tasks : tasks[i].out[2] = ".jpg"

\* C17: auto-mode discovery returns a strictly ascending sequence, hence one
\* without duplicates, whose set of elements is the union of what the heic,
\* avif and jxl discoveries return; a directory that does not exist gives the
\* empty sequence.
C17_AutoDiscovery ==
  (pc # "find" /\ resolve_input_format(task) = "auto") =>
    /\ \A i, j \in DOMAIN files : i < j => files[i] < files[j]
    /\ Range(files) = Range(find_files(dirExists, dir, "heic"))
                        \cup Range(find_files(dirExists, dir, "avif"))
                        \cup Range(find_files(dirExists, dir, "jxl"))
    /\ Range(files) = { f \in dir : Suffix(f) \in ExtsOf("heic") \cup ExtsOf("avif")
                                                  \cup ExtsOf("jxl") }
    /\ (~dirExists => files = << >>)

C17_Witness ==
  /\ pc = "planned"
  /\ resolve_input_format(task) = "auto"
  /\ Len(files) = 3
  /\ Suffix(files[1]) = ".heic"
  /\ Suffix(files[2]) = ".avif"
  /\ Suffix(files[3]) = ".heic"

\* C18: the shutdown flag is write-once: it starts false, the signal handler
\* sets it, a second signal leaves it set, and no step of a run, across all
\* the tasks the run processes, sets it back to false.
C18_ShutdownWriteOnce ==
  /\ ~shutdown
  /\ [][(shutdown => shutdown') /\ (shutdown' # shutdown => shutdown' = TRUE)]_vars

C18_Witness ==
  /\ pc = "exit"
  /\ shutdown
  /\ Len(cfg) = 2
  /\ started = {1}
  /\ mres[1].success > 0
  /\ cfg[2].enabled

\* C13: close() leaves current == total whatever updates came before it: from
\* its write until it returns, current equals total; and a tracker whose
\* total is 0 never renders and never divides by zero.
Closing(t) == call[t].op = "close" /\ call[t].pc \in {"stored", "shown"}

C13_CloseReachesTotal ==
  /\ [](\A t \in DOMAIN call : Closing(t) => progress.current = progress.total)
  /\ [][\A t \in DOMAIN call :
          (Closing(t) /\ call'[t].pc = "returned") =>
            progress'.current = progress'.total]_vars
  /\ [](progress.total = 0 =>
          \A t \in DOMAIN call : ~call[t].rendered /\ call[t].divisors = {})
  /\ [](\A t \in DOMAIN call : 0 \notin call[t].divisors)

C13_Witness ==
  /\ progress.total = MaxTotal
  /\ progress.current = progress.total
  /\ \A t \in DOMAIN call : call[t].pc = "returned"
  /\ \E t \in DOMAIN call :
       /\ call[t].op = "close"
       /\ call[t].rendered
       /\ call[t].value = progress.total
       /\ \A u \in DOMAIN call \ {t} :
            call[u].op = "update" /\ call[u].n = 1 /\ call[u].value < progress.total

\* the scheduler's use of close(): a run with the progress bar on ends with
\* current == total, also when a raised batch was never added to current
SchedulerRunEndsAtTotal ==
  (SchedulerReturned /\ progress.on) => progress.current = progress.total

\* C20: update is atomic: the write of an update adds n to the value current
\* has at that moment, so no update is lost; while only updates are made,
\* current is the sum of the n of the updates that have written, and so the
\* sum of all n once all have returned; and the line a call renders shows the
\* value that call wrote.
Written == { t \in DOMAIN call : call[t].pc \in {"stored", "shown", "returned"} }
CallN(t) == call[t].n

C20_UpdateAtomic ==
  /\ [][\A t \in DOMAIN call :
          (call[t].pc = "loaded" /\ call'[t].pc = "stored") =>
            progress'.current = progress.current + call[t].n]_vars
  /\ []((\A t \in DOMAIN call : call[t].op = "update") =>
          progress.current = SumOver(Written, CallN))
  /\ [](\A t \in DOMAIN call :
          (call[t].pc \in {"shown", "returned"} /\ call[t].rendered) =>
            call[t].value = call[t].wrote)

C20_Witness ==
  /\ \A t \in DOMAIN call : call[t].op = "update" /\ call[t].pc = "returned"
  /\ Cardinality(DOMAIN call) >= 3
  /\ progress.current = SumOver(DOMAIN call, CallN)
  /\ progress.current > Cardinality(DOMAIN call)
  /\ progress.total > 0

\* C19: a thread that is inside a codec collaborator call does not hold the
\* ProgressBar lock, and the lock is held only by a thread that is inside
\* update() or close(), between entering and leaving the with block.
InsideBarCall(t) ==
  IF t \in DOMAIN call
  THEN call[t].pc \in {"locked", "loaded", "stored", "shown"}
  ELSE FALSE

C19_NoLockAcrossCodec ==
  /\ \A b \in codec : lock # b /\ ~InsideBarCall(b)
  /\ lock # 0 => InsideBarCall(lock)
  /\ MainThread \notin codec

C19_Witness ==
  /\ lock = MainThread
  /\ call[MainThread].op = "update"
  /\ call[MainThread].pc = "loaded"
  /\ codec # {}

\* C21: the task's TaskResult is written by one thread only, the orchestrating
\* one, and so never by two threads at overlapping times: a step of a pool
\* thread changes the future of its own batch and nothing of the TaskResult
\* or of another batch's future, and a step that changes the TaskResult is a
\* step of the orchestrating thread (process() setting it up, the drain of
\* one finished future, or the return).
PoolThreadStep(b) ==
  /\ b \in DOMAIN fut
  /\ fut[b].st \in {"queued", "running"}
  /\ (fut'[b] # fut[b] \/ (b \in codec) # (b \in codec'))

C21_ResultSingleWriter ==
  [][/\ \A b \in DOMAIN fut :
          PoolThreadStep(b) =>
            /\ result' = result
            /\ \A c \in DOMAIN fut \ {b} : fut'[c] = fut[c]
     /\ result' # result =>
          /\ fut' = fut
          /\ codec' = codec
          /\ \/ pc = "idle"
             \/ (pc = "drain" /\ \E b \in DOMAIN fut : drained' = drained \cup {b}
                                                       /\ b \notin drained)
             \/ (pc = "close" /\ pc' = "done")]_vars

C21_Witness ==
  /\ pc = "drain"
  /\ result.success > 0
  /\ result.failed > 0
  /\ Cardinality(drained) = 2
  /\ codec # {}

\* C22: skip_existing is evaluated once per file, when the task is planned:
\* the files skipped are those whose output path existed then, and none of
\* them is converted in the run; every other file is planned and, in a batch
\* whose future returns, executed, also when a file has appeared at its output
\* path since planning, and counted by the outcome of its own conversion.
SkippedFiles == { files[i] : i \in PlannedSkips }
PlannedInputs == { tasks[i].inp : i \in DOMAIN tasks }

C22_SkipDecidedAtPlanning ==
  pc \in {"submit", "drain", "close", "done"} =>
    /\ PlannedInputs = Range(files) \ SkippedFiles
    /\ \A b \in DOMAIN fut :
         /\ \A k \in DOMAIN fut[b].log :
              /\ fut[b].log[k].inp = batches[b][k].inp
              /\ fut[b].log[k].inp \notin SkippedFiles
         /\ fut[b].st = "returned" =>
              /\ Attempted(b) = BatchLen(b)
              /\ fut[b].success = OkCount(b)
              /\ fut[b].failed = BatchLen(b) - OkCount(b)
    /\ (pc = "done" /\ files # << >>) => result.skipped = Cardinality(SkippedFiles)

C22_Witness ==
  /\ task.skip_existing
  /\ SkippedFiles # {}
  /\ \E b \in codec :
       LET item == batches[b][Len(fut[b].log) + 1]
       IN /\ item.out \in outFiles
          /\ item.out \notin planFs
          /\ \A c \in DOMAIN fut : fut[c].log = << >>

\* C23: every work item of a task is converted in the direction the task's
\* resolved formats fix: convert_to_jpg when the effective input format is
\* heic, avif, jxl or auto, convert_to_modern when it is jpg; and
\* _convert_file and process_task choose the same collaborator for the same
\* task and file.
C23_DirectionFixedByFormats ==
  pc = "planned" =>
    LET input_fmt == resolve_input_format(task)
        direction == IF input_fmt = "jpg" THEN "convert_to_modern" ELSE "convert_to_jpg"
    IN \A i \in DOMAIN tasks :
         /\ ConvertFile(tasks[i].fmt) = direction
         /\ ConvertFile(tasks[i].fmt) = MainConvertFunc(input_fmt)

\* C24: under fair scheduling, with every codec call returning or raising,
\* _execute_tasks_batch returns; by then every submitted batch has been
\* executed and drained, exactly once: a future never goes back to an earlier
\* state, what it has logged is never undone, a drained future is never
\* touched again, and the drained counts add up to the number of work items.
\* This holds for every worker count and batch count, also with more batches
\* than workers.
StRank(st) ==
  CASE st = "new" -> 0
    [] st = "queued" -> 1
    [] st = "running" -> 2
    [] OTHER -> 3

\* a step of the scheduler only moves the futures forward
FuturesAdvance ==
  pc \in {"submit", "drain", "close"} =>
    /\ drained \subseteq drained'
    /\ \A b \in DOMAIN fut :
         /\ StRank(fut'[b].st) >= StRank(fut[b].st)
         /\ Len(fut'[b].log) >= Len(fut[b].log)
         /\ SubSeq(fut'[b].log, 1, Len(fut[b].log)) = fut[b].log
         /\ Len(fut'[b].log) <= BatchLen(b)
         /\ ((StRank(fut[b].st) = 3 \/ b \in drained) => (fut'[b] = fut[b]))

C24_Termination ==
  /\ <>(pc = "done")
  /\ []((pc = "done" /\ tasks # << >>) =>
          /\ nsub = Len(batches)
          /\ drained = DOMAIN fut
          /\ codec = {}
          /\ \A b \in DOMAIN fut : fut[b].st \in {"returned", "raised"}
          /\ result.success + result.failed = Len(tasks))
  /\ [][FuturesAdvance]_vars

C24_Witness ==
  /\ pc = "done"
  /\ Len(batches) = 3
  /\ Len(batches) > max_workers
  /\ drained = DOMAIN fut
  /\ \E b \in DOMAIN fut : fut[b].st = "raised"
  /\ result.success > 0

====
